---- MODULE Spec2Model ----
(***************************************************************************)
(* Model of pathfinder's DirectWrite font back end                         *)
(* (font-renderer/src/directwrite/mod.rs): the FontContext catalog and its *)
(* queries, the registration of a font from memory, the geometry sink that *)
(* records outline callbacks, the reference-counted objects of the loader  *)
(* chain: the memory-backed font file loader and its stream, the           *)
(* collection loader and its one-file font file enumerator.                *)
(***************************************************************************)
EXTENDS Integers, Sequences, FiniteSets, TLC

(***************************************************************************)
(* Bounds of the model.                                                    *)
(***************************************************************************)
MaxFaces == 3
CtxCalls == 1
MaxCalls == 3
MaxChars == 2
WordBits == 3
MaxBufLen == 3
MaxRefs == 3
MaxEnums == 2
MaxMoves == 3
MaxFileRefs == 5
MaxStreams == 2
MaxRead == 1
DwordBits == 2
MaxThreads == 3
MaxComOps == 3

(***************************************************************************)
(* Input domains.                                                          *)
(***************************************************************************)
Keys == {"k1", "k2"}
SystemFamilies == {"Arial"}
NamesWithNul == {"Ar\\0ial"}
Names == SystemFamilies \cup {"NoSuchFamily"} \cup NamesWithNul
Point(px, py) == [x |-> px, y |-> py]
Bezier(p1, p2, p3) == [point1 |-> p1, point2 |-> p2, point3 |-> p3]
StartPoints == {Point(0, 0), Point(10, 20)}
LineLists ==
    {<<>>, <<Point(30, 20)>>, <<Point(30, 20), Point(5, 7)>>,
     <<Point(5, 7), Point(30, 20)>>}
BezierA == Bezier(Point(1, 2), Point(3, 4), Point(5, 6))
BezierB == Bezier(Point(7, 8), Point(9, 1), Point(2, 3))
BezierLists == {<<>>, <<BezierA>>, <<BezierA, BezierB>>, <<BezierB, BezierA>>}
\* The smaller streams used where the catalog varies as well.
CtxStartPoints == {Point(10, 20)}
CtxLineLists == {<<Point(30, 20)>>}
CtxBezierLists == {<<BezierA>>}
Chars == {65, 9999}

RECURSIVE Pow2(_)
Pow2(n) == IF n = 0 THEN 1 ELSE 2 * Pow2(n - 1)
\* UINT64 arithmetic, scaled to WordBits bits.
Modulus == Pow2(WordBits)
Words == 0 .. (Modulus - 1)

SeqsUpTo(S, n) == UNION {[1 .. m -> S] : m \in 0 .. n}

(***************************************************************************)
(* HRESULTs and enumerations of the host interface.                        *)
(***************************************************************************)
S_OK == "S_OK"
E_BOUNDS == "E_BOUNDS"
E_INVALIDARG == "E_INVALIDARG"
D2D1_FIGURE_END_OPEN == "D2D1_FIGURE_END_OPEN"
D2D1_FIGURE_END_CLOSED == "D2D1_FIGURE_END_CLOSED"
FigureEnds == {D2D1_FIGURE_END_OPEN, D2D1_FIGURE_END_CLOSED}
FillModes == {"D2D1_FILL_MODE_ALTERNATE", "D2D1_FILL_MODE_WINDING"}
SegmentFlags == {"D2D1_PATH_SEGMENT_NONE", "D2D1_PATH_SEGMENT_FORCE_UNSTROKED"}

VARIABLES
    dwrite_font_faces,  \* FontContext.dwrite_font_faces: key -> face handle
    nextFace,           \* next face handle the host engine hands out
    live,               \* history: keys added successfully and not deleted since
    ret,                \* the public call in progress or last returned
    pc,                 \* "idle", or "outlining" inside GetGlyphRunOutline
    commands,           \* PathfinderGeometrySink.commands of the live sink
    calls,              \* history: callbacks the live sink received
    buffer_len,         \* PathfinderFontFileStream.buffer.len()
    creation_time,      \* PathfinderFontFileStream.creation_time
    streamRet,          \* last GetFileSize or GetLastWriteTime call
    stream_refs,        \* reference count of the stream object
    fragments,          \* history: fragments read and not yet released
    frag,               \* last ReadFileFragment call and its outputs
    stream_live,        \* the stream object is allocated
    owners,             \* history: references on the stream held by its
                        \* owners (not by fragments)
    buffer_refs,        \* strong count of the Arc<Vec<u8>> the stream shares
    file_streams,       \* history: streams the file loader has created
    loaderRet,          \* last PathfinderFontFileLoader call
    comRet,             \* last IUnknown call on the stream
    enumerators,        \* the PathfinderFontFileEnumerator objects: state, and
                        \* (history) moves, the MoveNext calls so far
    font_file_refs,     \* references held on the loader's IDWriteFontFile
    loader_refs,        \* reference count of the collection loader object
    enumRet,            \* last collection loader or enumerator call
    loadStep,           \* add_font_from_memory: the host engine call being
                        \* made (0: not inside add_font_from_memory)
    registered,         \* loaders of the last add_font_from_memory that are in
                        \* the host engine's loader table
    context_refs,       \* references on the two loaders of the last
                        \* add_font_from_memory that the FontContext has
                        \* taken and not released
    ref_count,          \* reference count of a plugin object that threads of
                        \* the host engine share
    thread_refs,        \* history: references on the object each thread holds
    threadRet,          \* last IUnknown call of each thread and its value
    com_history         \* history: AddRef and Release calls completed, and
                        \* deallocations of the object

ctxVars == <<dwrite_font_faces, nextFace, live, ret>>
sinkVars == <<pc, commands, calls>>
streamVars == <<buffer_len, creation_time, streamRet, stream_refs, fragments, frag, stream_live, owners,
                buffer_refs, file_streams, loaderRet, comRet>>
enumVars == <<enumerators, font_file_refs, loader_refs, enumRet>>
loadVars == <<loadStep, registered, context_refs>>
comVars == <<ref_count, thread_refs, threadRet, com_history>>
vars == <<dwrite_font_faces, nextFace, live, ret, pc, commands, calls,
          buffer_len, creation_time, streamRet,
          stream_refs, fragments, frag, stream_live, owners,
          buffer_refs, file_streams, loaderRet, comRet,
          enumerators, font_file_refs, loader_refs, enumRet,
          loadStep, registered, context_refs,
          ref_count, thread_refs, threadRet, com_history>>

(***************************************************************************)
(* Helpers.                                                                *)
(***************************************************************************)
Restrict(f, S) == [k \in S |-> f[k]]
Insert(f, k, v) == [j \in (DOMAIN f) \cup {k} |-> IF j = k THEN v ELSE f[j]]
Remove(f, k) == Restrict(f, (DOMAIN f) \ {k})
EmptyMap == [k \in {} |-> 0]

\* The record of one public FontContext call: the operation, its key, the
\* family name (add_system_font), what it returned, the host engine entry
\* points it invoked, the value it returned and, for an outline, the
\* callbacks its sink received; characters is the input of the glyph index
\* lookup.
Call(op, key) ==
    [op |-> op, key |-> key, name |-> "", result |-> "pending",
     engineCalls |-> <<>>, value |-> <<>>, calls |-> <<>>,
     characters |-> <<>>]

\* Host engine entry points invoked by a call up to and including step n,
\* of which step failAt (0: none) reports a failure HRESULT.
EngineCalls(steps, n, failAt) ==
    [i \in 1 .. n |-> [fn |-> steps[i], ok |-> (i # failAt)]]

(***************************************************************************)
(* FontContext: the catalog and the operations that change it.             *)
(***************************************************************************)
\* Variant order in which the file reference is created before the file
\* loader is registered.
MemorySteps_reference_first ==
    <<"CreateCustomFontFileReference", "RegisterFontFileLoader",
      "RegisterFontCollectionLoader", "CreateCustomFontCollection",
      "GetFontFamily", "GetFont", "CreateFontFace",
      "UnregisterFontCollectionLoader", "UnregisterFontFileLoader">>

\* The host engine calls of add_font_from_memory, in program order.
MemorySteps ==
    <<"RegisterFontFileLoader", "CreateCustomFontFileReference",
      "RegisterFontCollectionLoader", "CreateCustomFontCollection",
      "GetFontFamily", "GetFont", "CreateFontFace",
      "UnregisterFontCollectionLoader", "UnregisterFontFileLoader">>

\* The host engine calls of add_system_font, in program order.
SystemSteps ==
    <<"GetSystemFontCollection", "FindFamilyName", "GetFontFamily",
      "GetFirstMatchingFont", "CreateFontFace">>

\* What a host engine call that succeeded does to the engine's loader
\* table, reg being the loaders of this call that are in it.
StepEffect(fn, reg) ==
    CASE fn = "RegisterFontFileLoader" -> reg \cup {"file"}
      [] fn = "RegisterFontCollectionLoader" -> reg \cup {"collection"}
      [] fn = "UnregisterFontCollectionLoader" -> reg \ {"collection"}
      [] fn = "UnregisterFontFileLoader" -> reg \ {"file"}
      [] OTHER -> reg

\* The loaders of a call in the loader table after the first n host engine
\* calls succeeded.
RECURSIVE RegisteredAfter(_, _)
RegisteredAfter(steps, n) ==
    IF n = 0 THEN {}
    ELSE StepEffect(steps[n], RegisteredAfter(steps, n - 1))

\* No reference on either loader.
NoReferences == [file |-> 0, collection |-> 0]

\* PathfinderComPtr::clone of a pointer to an object of count refs (0: the
\* object is yet to be constructed, by the `new` that precedes the first
\* clone): the clone takes a reference of its own.
CloneOf(refs) == IF refs = 0 THEN refs + 2 ELSE refs + 1

\* The references the FontContext takes to make host engine call fn:
\* a loader is constructed before the first call that is given it, and each
\* call that is given a loader gets `clone().into_raw()`, a reference that
\* into_raw takes out of the pointer's care without releasing it.  The two
\* unregister calls get the owning pointer itself, by `into_raw()`.
CallReferences(fn, refs) ==
    CASE fn \in {"RegisterFontFileLoader", "CreateCustomFontFileReference"} ->
             [refs EXCEPT !.file = CloneOf(@)]
      [] fn \in {"RegisterFontCollectionLoader", "CreateCustomFontCollection"} ->
             [refs EXCEPT !.collection = CloneOf(@)]
      [] OTHER -> refs

\* `return Err(())` after call fn failed drops the owning pointers that are
\* in scope: that of the file loader unless into_raw has consumed it for
\* UnregisterFontFileLoader, that of the collection loader once it has been
\* constructed and unless into_raw has consumed it for
\* UnregisterFontCollectionLoader.  A drop releases one reference.
ReturnReferences(fn, refs) ==
    [file |-> IF fn # "UnregisterFontFileLoader"
              THEN refs.file - 1 ELSE refs.file,
     collection |-> IF /\ refs.collection > 0
                       /\ fn \notin {"UnregisterFontCollectionLoader",
                                     "UnregisterFontFileLoader"}
                    THEN refs.collection - 1 ELSE refs.collection]

\* The references taken by the first n host engine calls of steps.
RECURSIVE ReferencesAfter(_, _)
ReferencesAfter(steps, n) ==
    IF n = 0 THEN NoReferences
    ELSE CallReferences(steps[n], ReferencesAfter(steps, n - 1))

\* FontContext::new.
new ==
    /\ dwrite_font_faces = EmptyMap
    /\ nextFace = 1
    /\ live = {}
    /\ ret = Call("new", "")
    /\ loadStep = 0
    /\ registered = {}
    /\ context_refs = NoReferences

\* Variant of add_font_from_memory that inserts the face as soon as it is
\* created, before the two loaders are unregistered.
add_font_from_memory_insert_early(font_key, failAt) ==
    /\ pc = "idle"
    /\ loadStep = 0
    /\ nextFace <= MaxFaces
    /\ LET ok == failAt = 0
           n == IF ok THEN Len(MemorySteps) ELSE failAt
       IN /\ dwrite_font_faces' =
                 IF ok \/ failAt > 7
                 THEN Insert(dwrite_font_faces, font_key, nextFace)
                 ELSE dwrite_font_faces
          /\ nextFace' = IF ok \/ failAt > 7 THEN nextFace + 1 ELSE nextFace
          /\ live' = IF ok THEN live \cup {font_key} ELSE live
          /\ ret' = [Call("add_font_from_memory", font_key) EXCEPT
                        !.result = IF ok THEN "Ok" ELSE "Err",
                        !.engineCalls = EngineCalls(MemorySteps, n, failAt)]
          /\ registered' =
                 RegisteredAfter(MemorySteps, IF ok THEN n ELSE n - 1)
          /\ context_refs' =
                 IF ok THEN ReferencesAfter(MemorySteps, n)
                 ELSE ReturnReferences(MemorySteps[n],
                                       ReferencesAfter(MemorySteps, n))
    /\ UNCHANGED <<loadStep, sinkVars, streamVars, enumVars, comVars>>

\* add_font_from_memory(font_key, bytes, _): failAt is the first host engine
\* call that reports failure (0: every call succeeds).  Every failure returns
\* Err(()) at once; only the path through all nine calls inserts.
add_font_from_memory(font_key, failAt) ==
    /\ pc = "idle"
    /\ loadStep = 0
    /\ nextFace <= MaxFaces
    /\ LET ok == failAt = 0
           n == IF ok THEN Len(MemorySteps) ELSE failAt
       IN /\ dwrite_font_faces' =
                 IF ok THEN Insert(dwrite_font_faces, font_key, nextFace)
                 ELSE dwrite_font_faces
          /\ nextFace' = IF ok \/ failAt > 7 THEN nextFace + 1 ELSE nextFace
          /\ live' = IF ok THEN live \cup {font_key} ELSE live
          /\ ret' = [Call("add_font_from_memory", font_key) EXCEPT
                        !.result = IF ok THEN "Ok" ELSE "Err",
                        !.engineCalls = EngineCalls(MemorySteps, n, failAt)]
          /\ registered' =
                 RegisteredAfter(MemorySteps, IF ok THEN n ELSE n - 1)
          /\ context_refs' =
                 IF ok THEN ReferencesAfter(MemorySteps, n)
                 ELSE ReturnReferences(MemorySteps[n],
                                       ReferencesAfter(MemorySteps, n))
    /\ UNCHANGED <<loadStep, sinkVars, streamVars, enumVars, comVars>>

\* add_font_from_memory seen one host engine call at a time, so that the
\* callbacks the engine makes during a call can be placed.  Entering the
\* function builds the file loader and makes the first call.
add_font_from_memory_enter(font_key) ==
    /\ pc = "idle"
    /\ loadStep = 0
    /\ nextFace <= MaxFaces
    /\ loadStep' = 1
    /\ registered' = {}
    /\ context_refs' = CallReferences(MemorySteps[1], NoReferences)
    /\ ret' = Call("add_font_from_memory", font_key)
    /\ UNCHANGED <<dwrite_font_faces, nextFace, live, sinkVars, streamVars,
                   enumVars, comVars>>

\* Variant of add_font_from_memory_step that takes the loaders of the call
\* out of the loader table when a call fails.
add_font_from_memory_step_rolls_back(ok) ==
    /\ loadStep \in 1 .. Len(MemorySteps)
    /\ LET fn == MemorySteps[loadStep]
       IN /\ ret' = [ret EXCEPT
                        !.engineCalls = Append(@, [fn |-> fn, ok |-> ok]),
                        !.result = IF ok THEN "pending" ELSE "Err"]
          /\ registered' = IF ok THEN StepEffect(fn, registered) ELSE {}
          /\ nextFace' = IF ok /\ fn = "CreateFontFace" THEN nextFace + 1
                         ELSE nextFace
          /\ loadStep' = IF ok THEN loadStep + 1 ELSE 0
          /\ context_refs' =
                 IF ~ok THEN ReturnReferences(fn, context_refs)
                 ELSE IF loadStep < Len(MemorySteps)
                 THEN CallReferences(MemorySteps[loadStep + 1], context_refs)
                 ELSE context_refs
    /\ UNCHANGED <<dwrite_font_faces, live, sinkVars, streamVars, enumVars, comVars>>

\* The host engine call in progress returns.  A failure HRESULT returns
\* Err(()) at once, with the loader table as it is; after a success the
\* function goes on to its next call or, after the last one, to the insert.
add_font_from_memory_step(ok) ==
    /\ loadStep \in 1 .. Len(MemorySteps)
    /\ LET fn == MemorySteps[loadStep]
       IN /\ ret' = [ret EXCEPT
                        !.engineCalls = Append(@, [fn |-> fn, ok |-> ok]),
                        !.result = IF ok THEN "pending" ELSE "Err"]
          /\ registered' = IF ok THEN StepEffect(fn, registered)
                           ELSE registered
          /\ nextFace' = IF ok /\ fn = "CreateFontFace" THEN nextFace + 1
                         ELSE nextFace
          /\ loadStep' = IF ok THEN loadStep + 1 ELSE 0
          /\ context_refs' =
                 IF ~ok THEN ReturnReferences(fn, context_refs)
                 ELSE IF loadStep < Len(MemorySteps)
                 THEN CallReferences(MemorySteps[loadStep + 1], context_refs)
                 ELSE context_refs
    /\ UNCHANGED <<dwrite_font_faces, live, sinkVars, streamVars, enumVars, comVars>>

\* After the last host engine call the face is inserted under the key and
\* the function returns Ok(()).
add_font_from_memory_insert ==
    /\ loadStep = Len(MemorySteps) + 1
    /\ dwrite_font_faces' = Insert(dwrite_font_faces, ret.key, nextFace - 1)
    /\ live' = live \cup {ret.key}
    /\ ret' = [ret EXCEPT !.result = "Ok"]
    /\ loadStep' = 0
    /\ UNCHANGED <<nextFace, registered, context_refs, sinkVars, streamVars,
                   enumVars, comVars>>

\* The host engine can call CreateStreamFromKey once it has been given the
\* file loader with a key, and CreateEnumeratorFromKey once it has been
\* given the collection loader with a key.
EngineHasKey(fn) ==
    \E i \in 1 .. Len(MemorySteps) : i <= loadStep /\ MemorySteps[i] = fn

\* The function is inside a host engine call, where the engine can call
\* back.
InEngineCall == loadStep \in 1 .. Len(MemorySteps)

\* add_system_font(font_key, name, _): after the system collection is
\* obtained the name is converted with WideCString::from_str(name).unwrap(),
\* which panics on an interior NUL; a family that does not exist returns
\* Err(()) after FindFamilyName succeeded.
add_system_font(font_key, name, failAt) ==
    /\ pc = "idle"
    /\ nextFace <= MaxFaces
    /\ LET n == IF failAt = 1 THEN 1
                ELSE IF name \in NamesWithNul THEN 1
                ELSE IF failAt = 2 THEN 2
                ELSE IF name \notin SystemFamilies THEN 2
                ELSE IF failAt = 0 THEN Len(SystemSteps) ELSE failAt
           hit == IF failAt \in 1 .. n THEN failAt ELSE 0
           result == IF failAt = 1 THEN "Err"
                     ELSE IF name \in NamesWithNul THEN "panic"
                     ELSE IF n = Len(SystemSteps) /\ hit = 0 THEN "Ok"
                     ELSE "Err"
       IN /\ dwrite_font_faces' =
                 IF result = "Ok"
                 THEN Insert(dwrite_font_faces, font_key, nextFace)
                 ELSE dwrite_font_faces
          /\ nextFace' = IF result = "Ok" THEN nextFace + 1 ELSE nextFace
          /\ live' = IF result = "Ok" THEN live \cup {font_key} ELSE live
          /\ ret' = [Call("add_system_font", font_key) EXCEPT
                        !.name = name,
                        !.result = result,
                        !.engineCalls = EngineCalls(SystemSteps, n, hit)]
    /\ UNCHANGED <<sinkVars, streamVars, enumVars, loadVars, comVars>>

\* Variant of delete_font that clears the whole map.
delete_font_clears(font_key) ==
    /\ pc = "idle"
    /\ dwrite_font_faces' = EmptyMap
    /\ live' = live \ {font_key}
    /\ ret' = [Call("delete_font", font_key) EXCEPT !.result = "()"]
    /\ UNCHANGED <<nextFace, sinkVars, streamVars, enumVars, loadVars, comVars>>

\* delete_font(font_key): BTreeMap::remove, whose result is dropped.
delete_font(font_key) ==
    /\ pc = "idle"
    /\ dwrite_font_faces' = Remove(dwrite_font_faces, font_key)
    /\ live' = live \ {font_key}
    /\ ret' = [Call("delete_font", font_key) EXCEPT !.result = "()"]
    /\ UNCHANGED <<nextFace, sinkVars, streamVars, enumVars, loadVars, comVars>>

(***************************************************************************)
(* FontContext: the queries.  The host engine owns the font data: cmap is  *)
(* its character map, designUnitsPerEm the em size it reports for a face.  *)
(***************************************************************************)
cmap(ch) == IF ch = 65 THEN 36 ELSE 0
designUnitsPerEm(face) == 1000 + face

\* glyph_dimensions: None for an absent key, before any engine call; None
\* when GetDesignGlyphMetrics fails.
glyph_dimensions(font_key, metricsOk) ==
    /\ pc = "idle"
    /\ ret' = IF font_key \notin DOMAIN dwrite_font_faces
              THEN [Call("glyph_dimensions", font_key) EXCEPT !.result = "None"]
              ELSE [Call("glyph_dimensions", font_key) EXCEPT
                       !.result = IF metricsOk THEN "Some" ELSE "None",
                       !.engineCalls =
                           <<[fn |-> "GetMetrics", ok |-> TRUE],
                             [fn |-> "GetDesignGlyphMetrics", ok |-> metricsOk]>>]
    /\ UNCHANGED <<dwrite_font_faces, nextFace, live, sinkVars, streamVars,
                   enumVars, loadVars, comVars>>

\* rasterize_glyph_with_native_rasterizer: always Err(()).
rasterize_glyph_with_native_rasterizer(font_key) ==
    /\ pc = "idle"
    /\ ret' = [Call("rasterize_glyph_with_native_rasterizer", font_key) EXCEPT
                  !.result = "Err"]
    /\ UNCHANGED <<dwrite_font_faces, nextFace, live, sinkVars, streamVars,
                   enumVars, loadVars, comVars>>

\* IDWriteFontFace::GetGlyphIndices(codePoints, codePointCount, glyphIndices)
\* of the host engine: the glyph index of each of the first codePointCount
\* code points is written to the same position of the output array.
GetGlyphIndices(codePoints, codePointCount, glyphIndices) ==
    [i \in 1 .. Len(glyphIndices) |->
        IF i <= codePointCount THEN cmap(codePoints[i]) ELSE glyphIndices[i]]

\* Variant of load_glyph_indices_for_characters that leaves out the
\* characters without a glyph.
load_glyph_indices_for_characters_skips_missing(font_key, characters, indicesOk) ==
    /\ pc = "idle"
    /\ LET glyphs == [i \in 1 .. Len(characters) |-> "uninit"]
           written == GetGlyphIndices(characters, Len(characters), glyphs)
       IN ret' = IF font_key \notin DOMAIN dwrite_font_faces
                 THEN [Call("load_glyph_indices_for_characters", font_key)
                          EXCEPT !.result = "Err",
                                 !.characters = characters]
                 ELSE [Call("load_glyph_indices_for_characters", font_key)
                          EXCEPT
                          !.characters = characters,
                          !.result = IF indicesOk THEN "Ok" ELSE "Err",
                          !.engineCalls =
                              <<[fn |-> "GetGlyphIndices", ok |-> indicesOk]>>,
                          !.value =
                              IF indicesOk
                              THEN SelectSeq(written, LAMBDA g : g # 0)
                              ELSE <<>>]
    /\ UNCHANGED <<dwrite_font_faces, nextFace, live, sinkVars, streamVars,
                   enumVars, loadVars, comVars>>

\* load_glyph_indices_for_characters: a vector of characters.len() glyph
\* indices is allocated uninitialised and handed, with the characters and
\* their number, to GetGlyphIndices; the vector is returned when the engine
\* reports success, Err(()) otherwise.
load_glyph_indices_for_characters(font_key, characters, indicesOk) ==
    /\ pc = "idle"
    /\ LET glyphs == [i \in 1 .. Len(characters) |-> "uninit"]
           written == GetGlyphIndices(characters, Len(characters), glyphs)
       IN ret' = IF font_key \notin DOMAIN dwrite_font_faces
                 THEN [Call("load_glyph_indices_for_characters", font_key)
                          EXCEPT !.result = "Err",
                                 !.characters = characters]
                 ELSE [Call("load_glyph_indices_for_characters", font_key)
                          EXCEPT
                          !.characters = characters,
                          !.result = IF indicesOk THEN "Ok" ELSE "Err",
                          !.engineCalls =
                              <<[fn |-> "GetGlyphIndices", ok |-> indicesOk]>>,
                          !.value = IF indicesOk THEN written ELSE <<>>]
    /\ UNCHANGED <<dwrite_font_faces, nextFace, live, sinkVars, streamVars,
                   enumVars, loadVars, comVars>>

\* pixels_per_unit: designUnitsPerEm of the face, Err(()) for an absent key.
pixels_per_unit(font_key) ==
    /\ pc = "idle"
    /\ ret' = IF font_key \notin DOMAIN dwrite_font_faces
              THEN [Call("pixels_per_unit", font_key) EXCEPT !.result = "Err"]
              ELSE [Call("pixels_per_unit", font_key) EXCEPT
                       !.result = "Ok",
                       !.engineCalls = <<[fn |-> "GetMetrics", ok |-> TRUE]>>,
                       !.value =
                           <<designUnitsPerEm(dwrite_font_faces[font_key])>>]
    /\ UNCHANGED <<dwrite_font_faces, nextFace, live, sinkVars, streamVars,
                   enumVars, loadVars, comVars>>

\* Variant of glyph_outline without the lookup of the key.
glyph_outline_unchecked(font_key) ==
    /\ pc = "idle"
    /\ ret' = [Call("glyph_outline", font_key) EXCEPT
                  !.engineCalls = <<[fn |-> "GetMetrics", ok |-> TRUE]>>]
    /\ pc' = "outlining"
    /\ commands' = <<>>
    /\ calls' = <<>>
    /\ UNCHANGED <<dwrite_font_faces, nextFace, live, streamVars, enumVars,
                   loadVars, comVars>>

\* glyph_outline up to the call of GetGlyphRunOutline: Err(()) for an absent
\* key; otherwise a new sink with no commands is handed to the engine, which
\* calls it back until GetGlyphRunOutline returns.
glyph_outline(font_key) ==
    /\ pc = "idle"
    /\ IF font_key \notin DOMAIN dwrite_font_faces
       THEN /\ ret' = [Call("glyph_outline", font_key) EXCEPT !.result = "Err"]
            /\ UNCHANGED sinkVars
       ELSE /\ ret' = [Call("glyph_outline", font_key) EXCEPT
                          !.engineCalls = <<[fn |-> "GetMetrics", ok |-> TRUE]>>]
            /\ pc' = "outlining"
            /\ commands' = <<>>
            /\ calls' = <<>>
    /\ UNCHANGED <<dwrite_font_faces, nextFace, live, streamVars, enumVars,
                   loadVars, comVars>>

\* Variant of glyph_outline_return that returns a copy of the commands and
\* leaves them in the sink.
glyph_outline_return_copies(outlineOk) ==
    /\ pc = "outlining"
    /\ ret' = [ret EXCEPT
                  !.result = IF outlineOk THEN "Ok" ELSE "Err",
                  !.engineCalls =
                      Append(@, [fn |-> "GetGlyphRunOutline", ok |-> outlineOk]),
                  !.value = IF outlineOk THEN commands ELSE <<>>,
                  !.calls = calls]
    /\ pc' = "idle"
    /\ commands' = commands
    /\ calls' = <<>>
    /\ UNCHANGED <<dwrite_font_faces, nextFace, live, streamVars, enumVars,
                   loadVars, comVars>>

\* glyph_outline from the return of GetGlyphRunOutline: on failure Err(());
\* on success the sink's commands are moved out (mem::replace with vec![]).
\* Either way the sink is dropped with the call.
glyph_outline_return(outlineOk) ==
    /\ pc = "outlining"
    /\ ret' = [ret EXCEPT
                  !.result = IF outlineOk THEN "Ok" ELSE "Err",
                  !.engineCalls =
                      Append(@, [fn |-> "GetGlyphRunOutline", ok |-> outlineOk]),
                  !.value = IF outlineOk THEN commands ELSE <<>>,
                  !.calls = calls]
    /\ pc' = "idle"
    /\ commands' = <<>>
    /\ calls' = <<>>
    /\ UNCHANGED <<dwrite_font_faces, nextFace, live, streamVars, enumVars,
                   loadVars, comVars>>

(***************************************************************************)
(* PathfinderGeometrySink: the callbacks of the host engine's tessellator. *)
(***************************************************************************)
MoveTo(p) == [type |-> "MoveTo", points |-> <<p>>]
LineTo(p) == [type |-> "LineTo", points |-> <<p>>]
CubicTo(c1, c2, p) == [type |-> "CubicTo", points |-> <<c1, c2, p>>]
Close == [type |-> "Close", points |-> <<>>]

\* One received callback, as the history variable calls records it.
Callback(op, points, beziers, flag) ==
    [op |-> op, points |-> points, beziers |-> beziers, flag |-> flag]

\* Variant of the point conversion that keeps Y as it is.
d2d_point_2f_to_f32_point(point) == Point(point.x, point.y)

\* d2d_point_2f_to_flipped_f32_point: X as received, Y negated.
d2d_point_2f_to_flipped_f32_point(point) == Point(point.x, 0 - point.y)

\* The sink records into commands and leaves everything else alone.
SinkFrame(callback) ==
    /\ pc = "outlining"
    /\ calls' = Append(calls, callback)
    /\ UNCHANGED <<pc, ctxVars, streamVars, enumVars, loadVars, comVars>>

AddBeziers(beziers) ==
    /\ commands' = commands \o
           [i \in 1 .. Len(beziers) |->
               CubicTo(d2d_point_2f_to_flipped_f32_point(beziers[i].point1),
                       d2d_point_2f_to_flipped_f32_point(beziers[i].point2),
                       d2d_point_2f_to_flipped_f32_point(beziers[i].point3))]
    /\ SinkFrame(Callback("AddBeziers", <<>>, beziers, ""))

\* Variant of AddLines that pushes the points last to first.
AddLines_reversed(points) ==
    /\ commands' = commands \o
           [i \in 1 .. Len(points) |->
               LineTo(d2d_point_2f_to_flipped_f32_point(
                          points[Len(points) + 1 - i]))]
    /\ SinkFrame(Callback("AddLines", points, <<>>, ""))

AddLines(points) ==
    /\ commands' = commands \o
           [i \in 1 .. Len(points) |->
               LineTo(d2d_point_2f_to_flipped_f32_point(points[i]))]
    /\ SinkFrame(Callback("AddLines", points, <<>>, ""))

\* Variant of BeginFigure that pushes nothing.
BeginFigure_noop(start_point) ==
    /\ UNCHANGED commands
    /\ SinkFrame(Callback("BeginFigure", <<start_point>>, <<>>, ""))

BeginFigure(start_point) ==
    /\ commands' =
           Append(commands, MoveTo(d2d_point_2f_to_flipped_f32_point(start_point)))
    /\ SinkFrame(Callback("BeginFigure", <<start_point>>, <<>>, ""))

\* Variant of Close that pushes a Close event.
SinkClose_pushes ==
    /\ commands' = Append(commands, Close)
    /\ SinkFrame(Callback("Close", <<>>, <<>>, ""))

SinkClose ==
    /\ UNCHANGED commands
    /\ SinkFrame(Callback("Close", <<>>, <<>>, ""))

\* Variant of EndFigure that pushes Close whatever figure_end is.
EndFigure_always_closes(figure_end) ==
    /\ commands' = Append(commands, Close)
    /\ SinkFrame(Callback("EndFigure", <<>>, <<>>, figure_end))

EndFigure(figure_end) ==
    /\ commands' = IF figure_end = D2D1_FIGURE_END_CLOSED
                   THEN Append(commands, Close)
                   ELSE commands
    /\ SinkFrame(Callback("EndFigure", <<>>, <<>>, figure_end))

SetFillMode(fill_mode) ==
    /\ UNCHANGED commands
    /\ SinkFrame(Callback("SetFillMode", <<>>, <<>>, fill_mode))

SetSegmentFlags(vertex_flags) ==
    /\ UNCHANGED commands
    /\ SinkFrame(Callback("SetSegmentFlags", <<>>, <<>>, vertex_flags))

(***************************************************************************)
(* PathfinderComObject (mod com): the reference count and the capability   *)
(* query of a plugin object.                                               *)
(***************************************************************************)
E_NOINTERFACE == "E_NOINTERFACE"
IID_IUnknown == "IID_IUnknown"
IID_IDWriteFactory == "IID_IDWriteFactory"
IID_IDWriteFontCollectionLoader == "IID_IDWriteFontCollectionLoader"
IID_IDWriteFontFileEnumerator == "IID_IDWriteFontFileEnumerator"
IID_IDWriteFontFileLoader == "IID_IDWriteFontFileLoader"
IID_IDWriteFontFileStream == "IID_IDWriteFontFileStream"
IID_ID2D1SimplifiedGeometrySink == "IID_ID2D1SimplifiedGeometrySink"
InterfaceIds ==
    {IID_IUnknown, IID_IDWriteFactory, IID_IDWriteFontCollectionLoader,
     IID_IDWriteFontFileEnumerator, IID_IDWriteFontFileLoader,
     IID_IDWriteFontFileStream, IID_ID2D1SimplifiedGeometrySink}

\* PathfinderCoclass::interface_guid of each coclass.
interface_guid(coclass) ==
    CASE coclass = "PathfinderFontCollectionLoader" ->
             IID_IDWriteFontCollectionLoader
      [] coclass = "PathfinderFontFileEnumerator" ->
             IID_IDWriteFontFileEnumerator
      [] coclass = "PathfinderFontFileLoader" -> IID_IDWriteFontFileLoader
      [] coclass = "PathfinderFontFileStream" -> IID_IDWriteFontFileStream
      [] coclass = "PathfinderGeometrySink" -> IID_ID2D1SimplifiedGeometrySink

\* PathfinderComObject::construct: the count of a new object.
construct == 1

\* AddRef: the incremented count, which is also the value returned.
AddRef(refs) == refs + 1

\* Variant of Release that leaves the count alone.
Release_keeps(refs) == refs

\* Release: the decremented count, which is also the value returned.
Release(refs) == refs - 1

\* Release deallocates the object when the count it produced is zero.
Deallocates(refs) == refs = 0

\* Variant of the capability query that every interface id satisfies.
QueryInterface_hr_any(coclass, riid) == S_OK

\* QueryInterface: the object answers for IUnknown and for the interface of
\* its coclass.
QueryInterface_hr(coclass, riid) ==
    IF riid \in {IID_IUnknown, interface_guid(coclass)} THEN S_OK
    ELSE E_NOINTERFACE

\* The record of one IUnknown call: the value returned (a count or an
\* HRESULT) and what was written to the output.
ComCall(op, riid, value, out) ==
    [op |-> op, riid |-> riid, value |-> value, out |-> out]

\* The threads of the host engine that call into a plugin object.
Threads == 1 .. MaxThreads

\* PathfinderComObject::construct: the count is one, and the constructing
\* thread holds the one reference.
PathfinderComObject_construct ==
    /\ ref_count = construct
    /\ thread_refs = [t \in Threads |-> IF t = 1 THEN 1 ELSE 0]
    /\ threadRet = [t \in Threads |-> ComCall("none", "", 0, "")]
    /\ com_history = [adds |-> 0, releases |-> 0, deallocs |-> 0]

\* Variant of AddRef that reads the count in one step and writes the
\* incremented value in a later one.
PathfinderComObject_AddRef_load_store(thread) ==
    /\ \/ /\ threadRet[thread].op # "load"
          /\ thread_refs[thread] > 0
          /\ ref_count < MaxRefs
          /\ com_history.adds + com_history.releases < MaxComOps
          /\ threadRet' = [threadRet EXCEPT
                              ![thread] = ComCall("load", "", ref_count, "")]
          /\ UNCHANGED <<ref_count, thread_refs, com_history>>
       \/ /\ threadRet[thread].op = "load"
          /\ ref_count' = AddRef(threadRet[thread].value)
          /\ thread_refs' = [thread_refs EXCEPT ![thread] = @ + 1]
          /\ threadRet' = [threadRet EXCEPT
                              ![thread] = ComCall("AddRef", "",
                                  AddRef(threadRet[thread].value), "")]
          /\ com_history' = [com_history EXCEPT !.adds = @ + 1]
    /\ UNCHANGED <<ctxVars, sinkVars, streamVars, enumVars, loadVars>>

\* AddRef from a thread that holds a reference: one atomic increment, which
\* returns the new count.
PathfinderComObject_AddRef(thread) ==
    /\ thread_refs[thread] > 0
    /\ ref_count < MaxRefs
    /\ com_history.adds + com_history.releases < MaxComOps
    /\ ref_count' = AddRef(ref_count)
    /\ thread_refs' = [thread_refs EXCEPT ![thread] = @ + 1]
    /\ threadRet' = [threadRet EXCEPT
                        ![thread] = ComCall("AddRef", "", AddRef(ref_count), "")]
    /\ com_history' = [com_history EXCEPT !.adds = @ + 1]
    /\ UNCHANGED <<ctxVars, sinkVars, streamVars, enumVars, loadVars>>

\* Release from a thread that holds a reference: one atomic decrement, which
\* returns the new count; the call that produces zero deallocates the object.
PathfinderComObject_Release(thread) ==
    /\ thread_refs[thread] > 0
    /\ com_history.adds + com_history.releases < MaxComOps
    /\ ref_count' = Release(ref_count)
    /\ thread_refs' = [thread_refs EXCEPT ![thread] = @ - 1]
    /\ threadRet' = [threadRet EXCEPT
                        ![thread] = ComCall("Release", "", Release(ref_count), "")]
    /\ com_history' = [com_history EXCEPT
                          !.releases = @ + 1,
                          !.deallocs = IF Deallocates(Release(ref_count))
                                       THEN @ + 1 ELSE @]
    /\ UNCHANGED <<ctxVars, sinkVars, streamVars, enumVars, loadVars>>

\* A thread passes a reference it holds to another thread: the pointer
\* changes hands, the count stays.
PassReference(from, to) ==
    /\ from # to
    /\ thread_refs[from] > 0
    /\ thread_refs' = [thread_refs EXCEPT ![from] = @ - 1, ![to] = @ + 1]
    /\ UNCHANGED <<ref_count, threadRet, com_history, ctxVars, sinkVars,
                   streamVars, enumVars, loadVars>>

(***************************************************************************)
(* PathfinderFontFileLoader and PathfinderFontFileStream.                  *)
(***************************************************************************)
PATHFINDER_FONT_COLLECTION_KEY == "MEMORY_COLLECTION"
PATHFINDER_FONT_FILE_KEY == "MEMORY_FILE"
ReferenceKeys ==
    {PATHFINDER_FONT_COLLECTION_KEY, PATHFINDER_FONT_FILE_KEY, "MEMORY_FIL",
     "MEMORY_FILE_", "MEMORY_FILF", ""}

NoFragment == [file_offset |-> 0, fragment_size |-> 0, hr |-> "none",
               fragment_start |-> -1]

LoaderCall(op, key, hr, out) == [op |-> op, key |-> key, hr |-> hr, out |-> out]

\* The record of one GetFileSize or GetLastWriteTime call: the HRESULT and
\* the value written through the out pointer.
StreamCall(op, hr, value) == [op |-> op, hr |-> hr, value |-> value]

\* What GetSystemTimeAsFileTime may write: a FILETIME of two DWORDs, here of
\* DwordBits bits each.
FILETIME(low, high) == [dwLowDateTime |-> low, dwHighDateTime |-> high]

FileTimes == {FILETIME(1, 0), FILETIME(0, 1), FILETIME(3, 1)}

\* PathfinderFontFileStream::new: (dwHighDateTime << 32) | dwLowDateTime; the
\* halves do not overlap, so the `|` is a sum.
FileTimeAsUINT64(now) ==
    now.dwHighDateTime * Pow2(DwordBits) + now.dwLowDateTime

\* PathfinderFontFileStream::new over a buffer of buffer_len bytes: the
\* stream holds one clone of the buffer and its creator the one reference
\* to the stream.
PathfinderFontFileStream_new ==
    /\ buffer_len \in 0 .. MaxBufLen
    /\ \E now \in FileTimes : creation_time = FileTimeAsUINT64(now)
    /\ streamRet = StreamCall("none", S_OK, 0)
    /\ stream_refs = construct
    /\ fragments = 0
    /\ frag = NoFragment
    /\ stream_live = TRUE
    /\ owners = 1
    /\ buffer_refs = 1
    /\ file_streams = 1
    /\ loaderRet = LoaderCall("CreateStreamFromKey", PATHFINDER_FONT_FILE_KEY,
                              S_OK, "stream")
    /\ comRet = ComCall("construct", "", construct, "")

\* PathfinderFontFileLoader::new: no stream has been created yet.
PathfinderFontFileLoader_new ==
    /\ buffer_len \in 0 .. MaxBufLen
    /\ creation_time = 0
    /\ streamRet = StreamCall("none", S_OK, 0)
    /\ stream_refs = 0
    /\ fragments = 0
    /\ frag = NoFragment
    /\ stream_live = FALSE
    /\ owners = 0
    /\ buffer_refs = 1
    /\ file_streams = 0
    /\ loaderRet = LoaderCall("new", "", S_OK, "")
    /\ comRet = ComCall("none", "", 0, "")

\* Variant of CreateStreamFromKey that serves the collection key as well.
CreateStreamFromKey_either_key(font_file_reference) ==
    /\ file_streams < MaxStreams
    /\ IF font_file_reference \notin
              {PATHFINDER_FONT_FILE_KEY, PATHFINDER_FONT_COLLECTION_KEY}
       THEN /\ loaderRet' = LoaderCall("CreateStreamFromKey",
                                       font_file_reference, E_INVALIDARG,
                                       "null")
            /\ UNCHANGED <<creation_time, stream_refs, fragments, frag,
                           stream_live, owners, buffer_refs, file_streams,
                           comRet>>
       ELSE /\ loaderRet' = LoaderCall("CreateStreamFromKey",
                                       font_file_reference, S_OK, "stream")
            /\ file_streams' = file_streams + 1
            /\ buffer_refs' = buffer_refs + 1
            /\ IF stream_live
               THEN UNCHANGED <<creation_time, stream_refs, fragments, frag,
                                stream_live, owners, comRet>>
               ELSE /\ \E now \in FileTimes :
                           creation_time' = FileTimeAsUINT64(now)
                    /\ stream_refs' = construct
                    /\ fragments' = 0
                    /\ frag' = NoFragment
                    /\ stream_live' = TRUE
                    /\ owners' = 1
                    /\ comRet' = ComCall("construct", "", construct, "")
    /\ UNCHANGED <<buffer_len, streamRet, ctxVars, sinkVars, enumVars,
                   loadVars, comVars>>

\* CreateStreamFromKey: the key bytes are compared, as a slice, with
\* PATHFINDER_FONT_FILE_KEY; a different key gets a null output and
\* E_INVALIDARG, the file key a new stream over a clone of the loader's
\* buffer.  The model follows the reference count of the first stream that
\* is alive; a further stream only counts and holds its clone of the buffer.
CreateStreamFromKey(font_file_reference) ==
    /\ file_streams < MaxStreams
    /\ IF font_file_reference # PATHFINDER_FONT_FILE_KEY
       THEN /\ loaderRet' = LoaderCall("CreateStreamFromKey",
                                       font_file_reference, E_INVALIDARG,
                                       "null")
            /\ UNCHANGED <<creation_time, stream_refs, fragments, frag,
                           stream_live, owners, buffer_refs, file_streams,
                           comRet>>
       ELSE /\ loaderRet' = LoaderCall("CreateStreamFromKey",
                                       font_file_reference, S_OK, "stream")
            /\ file_streams' = file_streams + 1
            /\ buffer_refs' = buffer_refs + 1
            /\ IF stream_live
               THEN UNCHANGED <<creation_time, stream_refs, fragments, frag,
                                stream_live, owners, comRet>>
               ELSE /\ \E now \in FileTimes :
                           creation_time' = FileTimeAsUINT64(now)
                    /\ stream_refs' = construct
                    /\ fragments' = 0
                    /\ frag' = NoFragment
                    /\ stream_live' = TRUE
                    /\ owners' = 1
                    /\ comRet' = ComCall("construct", "", construct, "")
    /\ UNCHANGED <<buffer_len, streamRet, ctxVars, sinkVars, enumVars,
                   loadVars, comVars>>

\* The bounds check of ReadFileFragment on UINT64 operands.  The `||` does
\* not evaluate the sum when file_offset > buffer_length.  The sum is a plain
\* `+`: a build with overflow checks panics when it exceeds the word, a build
\* without them wraps.
ReadFileFragment_hr(file_offset, fragment_size, buffer_length, overflow_checks) ==
    IF file_offset > buffer_length THEN E_BOUNDS
    ELSE IF file_offset + fragment_size >= Modulus /\ overflow_checks
         THEN "panic"
    ELSE IF (file_offset + fragment_size) % Modulus > buffer_length
         THEN E_BOUNDS
    ELSE S_OK

\* Variant of ReadFileFragment that takes no reference on the stream.
ReadFileFragment_no_AddRef(file_offset, fragment_size, overflow_checks) ==
    /\ stream_live
    /\ frag.hr # "panic"
    /\ LET hr == ReadFileFragment_hr(file_offset, fragment_size, buffer_len,
                                     overflow_checks)
       IN /\ hr = S_OK => stream_refs < MaxRefs
          /\ frag' = [file_offset |-> file_offset,
                      fragment_size |-> fragment_size,
                      hr |-> hr,
                      fragment_start |-> IF hr = S_OK THEN file_offset ELSE -1]
          /\ stream_refs' = stream_refs
          /\ fragments' = IF hr = S_OK THEN fragments + 1 ELSE fragments
    /\ UNCHANGED <<buffer_len, creation_time, streamRet,
                   stream_live, owners, buffer_refs, file_streams,
                   loaderRet, comRet, ctxVars, sinkVars, enumVars, loadVars, comVars>>

\* ReadFileFragment: on success the fragment starts file_offset bytes into
\* the buffer and the stream takes a reference on itself.  On E_BOUNDS the
\* outputs are not written.
ReadFileFragment(file_offset, fragment_size, overflow_checks) ==
    /\ stream_live
    /\ frag.hr # "panic"
    /\ LET hr == ReadFileFragment_hr(file_offset, fragment_size, buffer_len,
                                     overflow_checks)
       IN /\ hr = S_OK => stream_refs < MaxRefs
          /\ frag' = [file_offset |-> file_offset,
                      fragment_size |-> fragment_size,
                      hr |-> hr,
                      fragment_start |-> IF hr = S_OK THEN file_offset ELSE -1]
          /\ stream_refs' = IF hr = S_OK THEN AddRef(stream_refs)
                            ELSE stream_refs
          /\ fragments' = IF hr = S_OK THEN fragments + 1 ELSE fragments
    /\ UNCHANGED <<buffer_len, creation_time, streamRet,
                   stream_live, owners, buffer_refs, file_streams,
                   loaderRet, comRet, ctxVars, sinkVars, enumVars, loadVars, comVars>>

\* Variant of ReleaseFileFragment that releases no reference.
ReleaseFileFragment_no_Release ==
    /\ stream_live
    /\ frag.hr # "panic"
    /\ fragments > 0
    /\ fragments' = fragments - 1
    /\ UNCHANGED <<buffer_len, creation_time, streamRet,
                   stream_refs, stream_live, buffer_refs, frag,
                   owners, file_streams, loaderRet, comRet, ctxVars, sinkVars,
                   enumVars, loadVars, comVars>>

\* ReleaseFileFragment: releases one reference on the stream.  The release
\* that brings the count to zero deallocates the stream, which drops its
\* clone of the buffer.
ReleaseFileFragment ==
    /\ stream_live
    /\ frag.hr # "panic"
    /\ fragments > 0
    /\ stream_refs' = Release(stream_refs)
    /\ fragments' = fragments - 1
    /\ stream_live' = ~Deallocates(Release(stream_refs))
    /\ buffer_refs' = IF Deallocates(Release(stream_refs))
                      THEN buffer_refs - 1 ELSE buffer_refs
    /\ UNCHANGED <<buffer_len, creation_time, streamRet,
                   frag, owners, file_streams, loaderRet, comRet,
                   ctxVars, sinkVars, enumVars, loadVars, comVars>>

\* IUnknown::AddRef of the stream's vtable, called by an owner of the stream.
Stream_AddRef ==
    /\ stream_live
    /\ frag.hr # "panic"
    /\ stream_refs < MaxRefs
    /\ stream_refs' = AddRef(stream_refs)
    /\ owners' = owners + 1
    /\ comRet' = ComCall("AddRef", "", AddRef(stream_refs), "")
    /\ UNCHANGED <<buffer_len, creation_time, streamRet,
                   fragments, frag, stream_live, buffer_refs,
                   file_streams, loaderRet, ctxVars, sinkVars, enumVars,
                   loadVars, comVars>>

\* IUnknown::Release of the stream's vtable, called by an owner of the
\* stream that gives up a reference it holds.
Stream_Release ==
    /\ stream_live
    /\ frag.hr # "panic"
    /\ owners > 0
    /\ stream_refs' = Release(stream_refs)
    /\ owners' = owners - 1
    /\ stream_live' = ~Deallocates(Release(stream_refs))
    /\ buffer_refs' = IF Deallocates(Release(stream_refs))
                      THEN buffer_refs - 1 ELSE buffer_refs
    /\ comRet' = ComCall("Release", "", Release(stream_refs), "")
    /\ UNCHANGED <<buffer_len, creation_time, streamRet,
                   fragments, frag, file_streams, loaderRet,
                   ctxVars, sinkVars, enumVars, loadVars, comVars>>

\* GetFileSize: the length of the buffer, S_OK.
GetFileSize ==
    /\ stream_live
    /\ frag.hr # "panic"
    /\ streamRet' = StreamCall("GetFileSize", S_OK, buffer_len)
    /\ UNCHANGED <<buffer_len, creation_time, stream_refs, fragments, frag,
                   stream_live, owners, buffer_refs, file_streams, loaderRet,
                   comRet, ctxVars, sinkVars, enumVars, loadVars, comVars>>

\* Variant of GetLastWriteTime that reports the time of the call.
GetLastWriteTime_now ==
    /\ stream_live
    /\ frag.hr # "panic"
    /\ \E now \in FileTimes :
           streamRet' = StreamCall("GetLastWriteTime", S_OK,
                                   FileTimeAsUINT64(now))
    /\ UNCHANGED <<buffer_len, creation_time, stream_refs, fragments, frag,
                   stream_live, owners, buffer_refs, file_streams, loaderRet,
                   comRet, ctxVars, sinkVars, enumVars, loadVars, comVars>>

\* GetLastWriteTime: the creation_time field, S_OK.
GetLastWriteTime ==
    /\ stream_live
    /\ frag.hr # "panic"
    /\ streamRet' = StreamCall("GetLastWriteTime", S_OK, creation_time)
    /\ UNCHANGED <<buffer_len, creation_time, stream_refs, fragments, frag,
                   stream_live, owners, buffer_refs, file_streams, loaderRet,
                   comRet, ctxVars, sinkVars, enumVars, loadVars, comVars>>

(***************************************************************************)
(* PathfinderFontCollectionLoader and PathfinderFontFileEnumerator.        *)
(***************************************************************************)
Start == "Start"
AtFontFile == "AtFontFile"
End == "End"

\* The record of one collection loader or enumerator call; arg is the key
\* or the interface id it was given.
EnumCall(op, this, hr, out) ==
    [op |-> op, this |-> this, hr |-> hr, out |-> out, arg |-> ""]

\* PathfinderFontCollectionLoader::new(font_file): the loader holds the one
\* reference to the font file; no enumerator exists yet.
PathfinderFontCollectionLoader_new ==
    /\ enumerators = <<>>
    /\ font_file_refs = 1
    /\ loader_refs = construct
    /\ enumRet = EnumCall("new", 0, S_OK, "")

\* CreateEnumeratorFromKey: the key and its size are unnamed parameters; a
\* new enumerator in state Start over a clone of the loader's font file is
\* written to the output.
CreateEnumeratorFromKey(collection_key) ==
    /\ Len(enumerators) < MaxEnums
    /\ font_file_refs < MaxFileRefs
    /\ enumerators' = Append(enumerators, [state |-> Start, moves |-> 0])
    /\ font_file_refs' = font_file_refs + 1
    /\ enumRet' = [EnumCall("CreateEnumeratorFromKey", Len(enumerators) + 1,
                            S_OK, "enumerator")
                      EXCEPT !.arg = collection_key]
    /\ UNCHANGED <<loader_refs, ctxVars, sinkVars, streamVars, loadVars, comVars>>

\* IUnknown::QueryInterface of the collection loader's vtable: S_OK, the
\* object itself and one more reference for an interface the object answers
\* for, E_NOINTERFACE and a null output otherwise.
CollectionLoader_QueryInterface(riid) ==
    /\ loader_refs > 0
    /\ LET hr == QueryInterface_hr("PathfinderFontCollectionLoader", riid)
       IN /\ hr = S_OK => loader_refs < MaxRefs
          /\ loader_refs' = IF hr = S_OK THEN AddRef(loader_refs)
                            ELSE loader_refs
          /\ enumRet' = [EnumCall("QueryInterface", 0, hr,
                                  IF hr = S_OK THEN "this" ELSE "null")
                            EXCEPT !.arg = riid]
    /\ UNCHANGED <<enumerators, font_file_refs, ctxVars, sinkVars, streamVars,
                   loadVars, comVars>>

\* Variant of GetCurrentFontFile that refuses only the state Start.
GetCurrentFontFile_not_start(this) ==
    /\ this \in DOMAIN enumerators
    /\ IF enumerators[this].state = Start
       THEN /\ enumRet' = EnumCall("GetCurrentFontFile", this, E_BOUNDS, "null")
            /\ UNCHANGED font_file_refs
       ELSE /\ font_file_refs < MaxFileRefs
            /\ enumRet' = EnumCall("GetCurrentFontFile", this, S_OK, "font_file")
            /\ font_file_refs' = font_file_refs + 1
    /\ UNCHANGED <<enumerators, loader_refs, ctxVars, sinkVars, streamVars,
                   loadVars, comVars>>

\* GetCurrentFontFile: E_BOUNDS and a null output unless the state is
\* AtFontFile; otherwise a clone of the font file (one more reference).
GetCurrentFontFile(this) ==
    /\ this \in DOMAIN enumerators
    /\ IF enumerators[this].state # AtFontFile
       THEN /\ enumRet' = EnumCall("GetCurrentFontFile", this, E_BOUNDS, "null")
            /\ UNCHANGED font_file_refs
       ELSE /\ font_file_refs < MaxFileRefs
            /\ enumRet' = EnumCall("GetCurrentFontFile", this, S_OK, "font_file")
            /\ font_file_refs' = font_file_refs + 1
    /\ UNCHANGED <<enumerators, loader_refs, ctxVars, sinkVars, streamVars,
                   loadVars, comVars>>

\* Variant of MoveNext that starts over after End.
MoveNext_wraps(this) ==
    /\ this \in DOMAIN enumerators
    /\ enumerators[this].moves < MaxMoves
    /\ LET st == enumerators[this].state
           next == IF st = Start THEN AtFontFile
                   ELSE IF st = AtFontFile THEN End ELSE Start
       IN /\ enumerators' = [enumerators EXCEPT
                                ![this].state = next,
                                ![this].moves = @ + 1]
          /\ enumRet' = EnumCall("MoveNext", this, S_OK,
                                 IF st = Start THEN "TRUE" ELSE "FALSE")
    /\ UNCHANGED <<font_file_refs, loader_refs, ctxVars, sinkVars, streamVars,
                   loadVars, comVars>>

\* MoveNext: Start -> AtFontFile (TRUE), AtFontFile -> End (FALSE),
\* End -> End (FALSE); always S_OK.
MoveNext(this) ==
    /\ this \in DOMAIN enumerators
    /\ enumerators[this].moves < MaxMoves
    /\ LET st == enumerators[this].state
           next == IF st = Start THEN AtFontFile ELSE End
       IN /\ enumerators' = [enumerators EXCEPT
                                ![this].state = next,
                                ![this].moves = @ + 1]
          /\ enumRet' = EnumCall("MoveNext", this, S_OK,
                                 IF st = Start THEN "TRUE" ELSE "FALSE")
    /\ UNCHANGED <<font_file_refs, loader_refs, ctxVars, sinkVars, streamVars,
                   loadVars, comVars>>

(***************************************************************************)
(* Specifications.                                                         *)
(***************************************************************************)
SinkIdle ==
    /\ pc = "idle"
    /\ commands = <<>>
    /\ calls = <<>>

\* The font context from its construction, with short callback streams.
Init ==
    /\ new
    /\ SinkIdle
    /\ PathfinderComObject_construct
    /\ PathfinderFontFileStream_new /\ buffer_len = 0
    /\ creation_time = FileTimeAsUINT64(FILETIME(1, 0))
    /\ PathfinderFontCollectionLoader_new

Next ==
    \/ \E k \in Keys, failAt \in 0 .. Len(MemorySteps) :
           add_font_from_memory(k, failAt)
    \/ \E k \in Keys, name \in Names, failAt \in 0 .. Len(SystemSteps) :
           add_system_font(k, name, failAt)
    \/ \E k \in Keys : delete_font(k)
    \/ \E k \in Keys, ok \in BOOLEAN : glyph_dimensions(k, ok)
    \/ \E k \in Keys : rasterize_glyph_with_native_rasterizer(k)
    \/ \E k \in Keys, cs \in SeqsUpTo(Chars, MaxChars), ok \in BOOLEAN :
           load_glyph_indices_for_characters(k, cs, ok)
    \/ \E k \in Keys : pixels_per_unit(k)
    \/ \E k \in Keys : glyph_outline(k)
    \/ \E ok \in BOOLEAN : glyph_outline_return(ok)
    \/ Len(calls) < CtxCalls /\ \E bs \in CtxBezierLists : AddBeziers(bs)
    \/ Len(calls) < CtxCalls /\ \E ps \in CtxLineLists : AddLines(ps)
    \/ Len(calls) < CtxCalls /\ \E p \in CtxStartPoints : BeginFigure(p)
    \/ Len(calls) < CtxCalls /\ SinkClose
    \/ Len(calls) < CtxCalls /\ \E e \in FigureEnds : EndFigure(e)
    \/ Len(calls) < CtxCalls /\ SetFillMode("D2D1_FILL_MODE_ALTERNATE")
    \/ Len(calls) < CtxCalls /\ SetSegmentFlags("D2D1_PATH_SEGMENT_NONE")

Spec == Init /\ [][Next]_vars

\* One outline call after another on a context that holds a face for "k1",
\* with every callback stream of up to MaxCalls callbacks.
InitSink ==
    /\ dwrite_font_faces = Insert(EmptyMap, "k1", 1)
    /\ nextFace = 2
    /\ live = {"k1"}
    /\ ret = [Call("add_font_from_memory", "k1") EXCEPT
                 !.result = "Ok",
                 !.engineCalls = EngineCalls(MemorySteps, Len(MemorySteps), 0)]
    /\ loadStep = 0
    /\ registered = RegisteredAfter(MemorySteps, Len(MemorySteps))
    /\ context_refs = ReferencesAfter(MemorySteps, Len(MemorySteps))
    /\ SinkIdle
    /\ PathfinderComObject_construct
    /\ PathfinderFontFileStream_new /\ buffer_len = 0
    /\ creation_time = FileTimeAsUINT64(FILETIME(1, 0))
    /\ PathfinderFontCollectionLoader_new

NextSink ==
    \/ \E k \in Keys : glyph_outline(k)
    \/ \E ok \in BOOLEAN : glyph_outline_return(ok)
    \/ Len(calls) < MaxCalls /\ \E bs \in BezierLists : AddBeziers(bs)
    \/ Len(calls) < MaxCalls /\ \E ps \in LineLists : AddLines(ps)
    \/ Len(calls) < MaxCalls /\ \E p \in StartPoints : BeginFigure(p)
    \/ Len(calls) < MaxCalls /\ SinkClose
    \/ Len(calls) < MaxCalls /\ \E e \in FigureEnds : EndFigure(e)
    \/ Len(calls) < MaxCalls /\ \E m \in FillModes : SetFillMode(m)
    \/ Len(calls) < MaxCalls /\ \E f \in SegmentFlags : SetSegmentFlags(f)

SpecSink == InitSink /\ [][NextSink]_vars

\* The host engine reading one font file stream.
InitStream ==
    /\ new
    /\ SinkIdle
    /\ PathfinderComObject_construct
    /\ PathfinderFontFileStream_new
    /\ creation_time = FileTimeAsUINT64(FILETIME(1, 0))
    /\ PathfinderFontCollectionLoader_new

NextStream ==
    \/ \E o \in Words, n \in Words, chk \in BOOLEAN : ReadFileFragment(o, n, chk)
    \/ ReleaseFileFragment

SpecStream == InitStream /\ [][NextStream]_vars

\* The host engine enumerating the files of the in-memory collection.
InitEnum ==
    /\ new
    /\ SinkIdle
    /\ PathfinderComObject_construct
    /\ PathfinderFontFileStream_new /\ buffer_len = 0
    /\ creation_time = FileTimeAsUINT64(FILETIME(1, 0))
    /\ PathfinderFontCollectionLoader_new

NextEnum ==
    \/ \E key \in ReferenceKeys : CreateEnumeratorFromKey(key)
    \/ \E this \in 1 .. MaxEnums : GetCurrentFontFile(this)
    \/ \E this \in 1 .. MaxEnums : MoveNext(this)
    \/ \E riid \in InterfaceIds : CollectionLoader_QueryInterface(riid)

SpecEnum == InitEnum /\ [][NextEnum]_vars

\* The host engine asking the file loader for streams, under any key, and
\* using the stream it was given.
InitFileLoader ==
    /\ new
    /\ SinkIdle
    /\ PathfinderComObject_construct
    /\ PathfinderFontFileLoader_new
    /\ PathfinderFontCollectionLoader_new

NextFileLoader ==
    \/ \E key \in ReferenceKeys : CreateStreamFromKey(key)
    \/ \E o \in 0 .. MaxRead, n \in 0 .. MaxRead :
           ReadFileFragment(o, n, FALSE)
    \/ ReleaseFileFragment
    \/ Stream_AddRef
    \/ Stream_Release

SpecFileLoader == InitFileLoader /\ [][NextFileLoader]_vars

\* The host engine asking one stream, created at any of the times and over
\* a buffer of any length, for its size and its last write time, between
\* reads, fragment releases and reference count calls.
InitStreamInfo ==
    /\ new
    /\ SinkIdle
    /\ PathfinderComObject_construct
    /\ PathfinderFontFileStream_new
    /\ PathfinderFontCollectionLoader_new

NextStreamInfo ==
    \/ GetFileSize
    \/ GetLastWriteTime
    \/ \E o \in 0 .. MaxRead, n \in 0 .. MaxRead :
           ReadFileFragment(o, n, FALSE)
    \/ ReleaseFileFragment
    \/ Stream_AddRef
    \/ Stream_Release

SpecStreamInfo == InitStreamInfo /\ [][NextStreamInfo]_vars

\* Threads of the host engine taking, passing and releasing references on
\* one plugin object, in any interleaving.
InitCom ==
    /\ new
    /\ SinkIdle
    /\ PathfinderComObject_construct
    /\ PathfinderFontFileStream_new /\ buffer_len = 0
    /\ creation_time = FileTimeAsUINT64(FILETIME(1, 0))
    /\ PathfinderFontCollectionLoader_new

NextCom ==
    \/ \E thread \in Threads : PathfinderComObject_AddRef(thread)
    \/ \E thread \in Threads : PathfinderComObject_Release(thread)
    \/ \E from \in Threads, to \in Threads : PassReference(from, to)

SpecCom == InitCom /\ [][NextCom]_vars

\* One add_font_from_memory, host engine call by host engine call, with the
\* callbacks the engine may make on the loader chain while it is inside a
\* call.
InitLoad ==
    /\ new
    /\ SinkIdle
    /\ PathfinderComObject_construct
    /\ PathfinderFontFileLoader_new /\ buffer_len = 0
    /\ PathfinderFontCollectionLoader_new

NextLoad ==
    \/ ret.op = "new" /\ \E k \in Keys : add_font_from_memory_enter(k)
    \/ \E ok \in BOOLEAN : add_font_from_memory_step(ok)
    \/ add_font_from_memory_insert
    \/ /\ InEngineCall
       /\ EngineHasKey("CreateCustomFontFileReference")
       /\ \E key \in {PATHFINDER_FONT_FILE_KEY, PATHFINDER_FONT_COLLECTION_KEY} :
              CreateStreamFromKey(key)
    \/ InEngineCall /\ ReadFileFragment(0, 0, FALSE)
    \/ InEngineCall /\ ReleaseFileFragment
    \/ /\ InEngineCall
       /\ EngineHasKey("CreateCustomFontCollection")
       /\ \E key \in {PATHFINDER_FONT_FILE_KEY, PATHFINDER_FONT_COLLECTION_KEY} :
              CreateEnumeratorFromKey(key)
    \/ InEngineCall /\ MoveNext(1)
    \/ InEngineCall /\ GetCurrentFontFile(1)

SpecLoad == InitLoad /\ [][NextLoad]_vars

(***************************************************************************)
(* Properties of the font context.                                         *)
(***************************************************************************)
AddOps == {"add_font_from_memory", "add_system_font"}
QueryOps == {"glyph_dimensions", "glyph_outline",
             "load_glyph_indices_for_characters", "pixels_per_unit"}

\* C1: add_font_from_memory on a key the catalog already holds returns
\* success without calling the host engine (no loader is registered, no step
\* of the loader chain is driven) and leaves the catalog, with the face
\* stored under the key, as it was.
C1_MemoryAddOfPresentKeyIsNoOp ==
    [][(ret'.op = "add_font_from_memory"
        /\ ret'.key \in DOMAIN dwrite_font_faces)
       => /\ ret'.result = "Ok"
          /\ ret'.engineCalls = <<>>
          /\ dwrite_font_faces' = dwrite_font_faces]_vars

\* C2: add_system_font on a key the catalog already holds returns success
\* whatever the family name and leaves the catalog, with the face stored
\* under the key, as it was.
C2_SystemAddOfPresentKeyIsNoOp ==
    [][(ret'.op = "add_system_font"
        /\ ret'.key \in DOMAIN dwrite_font_faces)
       => /\ ret'.result = "Ok"
          /\ dwrite_font_faces' = dwrite_font_faces]_vars

\* Every host engine call of the operation was made and succeeded, and the
\* family was found.
EveryStepSucceeded(r) ==
    IF r.op = "add_font_from_memory"
    THEN r.engineCalls = EngineCalls(MemorySteps, Len(MemorySteps), 0)
    ELSE /\ r.engineCalls = EngineCalls(SystemSteps, Len(SystemSteps), 0)
         /\ r.name \in SystemFamilies

\* C3: an add that does not return success leaves the catalog exactly as it
\* was, and the catalog changes only when every host engine step succeeded
\* (the two unregistrations included, the family found), and then by an
\* entry under the key of the call.
C3_FailedAddLeavesCatalog ==
    [][ret'.op \in AddOps
       => /\ ret'.result # "Ok" => dwrite_font_faces' = dwrite_font_faces
          /\ dwrite_font_faces' # dwrite_font_faces
             => /\ ret'.result = "Ok"
                /\ EveryStepSucceeded(ret')
                /\ ret'.key \in DOMAIN dwrite_font_faces'
                /\ \A k \in DOMAIN dwrite_font_faces' \ {ret'.key} :
                       /\ k \in DOMAIN dwrite_font_faces
                       /\ dwrite_font_faces'[k] = dwrite_font_faces[k]]_vars

\* C3 witness: the last unregistration failed after the face was created,
\* on a catalog that holds an entry.
C3_Witness ==
    /\ ret.op = "add_font_from_memory"
    /\ ret.result = "Err"
    /\ Len(ret.engineCalls) = Len(MemorySteps)
    /\ dwrite_font_faces # EmptyMap

\* C4: delete_font returns normally; afterwards the key is absent and every
\* entry under another key is as it was.
C4_DeleteRemovesOnlyKey ==
    [][ret'.op = "delete_font"
       => /\ ret'.result = "()"
          /\ DOMAIN dwrite_font_faces' = (DOMAIN dwrite_font_faces) \ {ret'.key}
          /\ \A k \in DOMAIN dwrite_font_faces' :
                 dwrite_font_faces'[k] = dwrite_font_faces[k]]_vars

\* C4 witness: a delete that left an entry under the other key.
C4_Witness ==
    /\ ret.op = "delete_font"
    /\ ret.key \notin DOMAIN dwrite_font_faces
    /\ dwrite_font_faces # EmptyMap

\* C5: a query on a key succeeds (or reaches the host engine at all) only
\* if the key was added successfully and not deleted since; on any other key
\* glyph_dimensions returns None and the other queries return Err, with no
\* host engine call.
C5_QueriesNeedLiveKey ==
    ret.op \in QueryOps
    => /\ ret.result \in {"Some", "Ok", "pending"} => ret.key \in live
       /\ ret.key \notin live
          => /\ ret.result =
                    IF ret.op = "glyph_dimensions" THEN "None" ELSE "Err"
             /\ ret.engineCalls = <<>>

\* C5 witness: a query fails on a key after faces were created and every
\* entry was deleted again.
C5_Witness ==
    /\ ret.op = "glyph_outline"
    /\ ret.result = "Err"
    /\ ret.engineCalls = <<>>
    /\ nextFace > 1
    /\ live = {}

(***************************************************************************)
(* Properties of the geometry sink.                                        *)
(***************************************************************************)
StartsWithMoveTo(events) == events # <<>> /\ events[1].type = "MoveTo"

\* Every Close has a MoveTo before it with no Close in between.
ClosesMatched(events) ==
    \A j \in DOMAIN events :
        events[j].type = "Close"
        => \E i \in 1 .. (j - 1) :
               /\ events[i].type = "MoveTo"
               /\ \A k \in (i + 1) .. (j - 1) : events[k].type # "Close"

\* The figure protocol of the tessellator: BeginFigure only outside a
\* figure; AddLines, AddBeziers and EndFigure only inside one.
RECURSIVE FigureOpenAfter(_, _)
FigureOpenAfter(log, n) ==
    IF n = 0 THEN FALSE
    ELSE IF log[n].op = "BeginFigure" THEN TRUE
    ELSE IF log[n].op = "EndFigure" THEN FALSE
    ELSE FigureOpenAfter(log, n - 1)

FigureProtocol(log) ==
    \A n \in DOMAIN log :
        /\ log[n].op = "BeginFigure" => ~FigureOpenAfter(log, n - 1)
        /\ log[n].op \in {"AddLines", "AddBeziers", "EndFigure"}
           => FigureOpenAfter(log, n - 1)

Emits(cb) ==
    IF cb.op = "BeginFigure" THEN 1
    ELSE IF cb.op = "AddLines" THEN Len(cb.points)
    ELSE IF cb.op = "AddBeziers" THEN Len(cb.beziers)
    ELSE IF cb.op = "EndFigure" /\ cb.flag = D2D1_FIGURE_END_CLOSED THEN 1
    ELSE 0

RECURSIVE EmittedBy(_, _)
EmittedBy(log, n) == IF n = 0 THEN 0 ELSE EmittedBy(log, n - 1) + Emits(log[n])

\* C7: the sink's commands are the concatenation, in callback order, of one
\* MoveTo per BeginFigure, one LineTo per point of an AddLines in the order
\* given, and one CubicTo(point1, point2, point3) per segment of an
\* AddBeziers in the order given.
C7_CommandsFollowCallbacks ==
    pc = "outlining"
    => /\ Len(commands) = EmittedBy(calls, Len(calls))
       /\ \A n \in DOMAIN calls :
              LET at == EmittedBy(calls, n - 1)
                  cb == calls[n]
              IN /\ cb.op = "BeginFigure"
                    => commands[at + 1] =
                           MoveTo(d2d_point_2f_to_flipped_f32_point(cb.points[1]))
                 /\ cb.op = "AddLines"
                    => \A j \in DOMAIN cb.points :
                           commands[at + j] =
                               LineTo(d2d_point_2f_to_flipped_f32_point(
                                          cb.points[j]))
                 /\ cb.op = "AddBeziers"
                    => \A j \in DOMAIN cb.beziers :
                           /\ commands[at + j].type = "CubicTo"
                           /\ commands[at + j].points =
                                  <<d2d_point_2f_to_flipped_f32_point(
                                        cb.beziers[j].point1),
                                    d2d_point_2f_to_flipped_f32_point(
                                        cb.beziers[j].point2),
                                    d2d_point_2f_to_flipped_f32_point(
                                        cb.beziers[j].point3)>>

\* C7 witness: BeginFigure((10,20)), AddLines of two points, AddBeziers of
\* two segments have been recorded as five events.
C7_Witness ==
    /\ pc = "outlining"
    /\ Len(calls) = 3
    /\ calls[1] = Callback("BeginFigure", <<Point(10, 20)>>, <<>>, "")
    /\ calls[2] = Callback("AddLines", <<Point(30, 20), Point(5, 7)>>, <<>>, "")
    /\ calls[3] = Callback("AddBeziers", <<>>, <<BezierB, BezierA>>, "")
    /\ Len(commands) = 5
    /\ commands[2] = LineTo(Point(30, -20))

\* C8: EndFigure(closed) appends exactly one Close, EndFigure(open) appends
\* nothing, and BeginFigure((0,0)) then EndFigure(open) leaves exactly
\* [MoveTo(0,0)].
C8_EndFigure ==
    [][(pc = "outlining" /\ pc' = "outlining" /\ Len(calls') = Len(calls) + 1
        /\ calls'[Len(calls')].op = "EndFigure")
       => /\ commands' =
                 IF calls'[Len(calls')].flag = D2D1_FIGURE_END_CLOSED
                 THEN Append(commands, Close)
                 ELSE commands
          /\ calls' = <<Callback("BeginFigure", <<Point(0, 0)>>, <<>>, ""),
                        Callback("EndFigure", <<>>, <<>>, D2D1_FIGURE_END_OPEN)>>
             => commands' = <<MoveTo(Point(0, 0))>>]_vars

\* C8 witness: BeginFigure((0,0)) then EndFigure(open).
C8_Witness ==
    /\ pc = "outlining"
    /\ calls = <<Callback("BeginFigure", <<Point(0, 0)>>, <<>>, ""),
                 Callback("EndFigure", <<>>, <<>>, D2D1_FIGURE_END_OPEN)>>
    /\ commands = <<MoveTo(Point(0, 0))>>

\* The points a callback carries, in the order received.
RECURSIVE BezierPoints(_)
BezierPoints(beziers) ==
    IF beziers = <<>> THEN <<>>
    ELSE <<beziers[1].point1, beziers[1].point2, beziers[1].point3>>
         \o BezierPoints(Tail(beziers))

ReceivedPoints(cb) ==
    IF cb.op = "AddBeziers" THEN BezierPoints(cb.beziers) ELSE cb.points

\* The points a sequence of events carries, in order.
RECURSIVE EventPoints(_)
EventPoints(events) ==
    IF events = <<>> THEN <<>>
    ELSE events[1].points \o EventPoints(Tail(events))

\* A step in which the sink receives one callback.
SinkStep ==
    /\ pc = "outlining"
    /\ pc' = "outlining"
    /\ Len(calls') = Len(calls) + 1

\* C22: the points of the events a callback appends (the MoveTo point, each
\* LineTo point, the three points of each CubicTo) are, in order, the points
\* received with X as it was and Y negated.
C22_YFlipped ==
    [][SinkStep =>
          LET cb == calls'[Len(calls')]
              received == ReceivedPoints(cb)
              emitted == EventPoints(SubSeq(commands', Len(commands) + 1,
                                            Len(commands')))
          IN /\ SubSeq(commands', 1, Len(commands)) = commands
             /\ cb.op \in {"BeginFigure", "AddLines", "AddBeziers"} =>
                    /\ Len(emitted) = Len(received)
                    /\ \A i \in DOMAIN received :
                           /\ emitted[i].x = received[i].x
                           /\ emitted[i].y = 0 - received[i].y]_vars

C22_Witness ==
    /\ pc = "outlining"
    /\ Len(calls) = 3
    /\ calls[1] = Callback("BeginFigure", <<Point(10, 20)>>, <<>>, "")
    /\ calls[2] = Callback("AddLines", <<Point(5, 7), Point(30, 20)>>, <<>>, "")
    /\ calls[3] = Callback("AddBeziers", <<>>, <<BezierA>>, "")
    /\ commands = <<MoveTo(Point(10, -20)), LineTo(Point(5, -7)),
                    LineTo(Point(30, -20)),
                    CubicTo(Point(1, -2), Point(3, -4), Point(5, -6))>>

\* C23: SetFillMode, SetSegmentFlags and Close leave the commands of the
\* sink as they are, whatever the argument and wherever in the callback
\* stream they come.
C23_IgnoredCallbacks ==
    [][(SinkStep /\ calls'[Len(calls')].op \in
                       {"SetFillMode", "SetSegmentFlags", "Close"})
       => commands' = commands]_vars

C23_Witness ==
    /\ pc = "outlining"
    /\ Len(calls) = 3
    /\ calls[1] = Callback("BeginFigure", <<Point(10, 20)>>, <<>>, "")
    /\ calls[2] = Callback("Close", <<>>, <<>>, "")
    /\ calls[3] = Callback("SetSegmentFlags", <<>>, <<>>,
                           "D2D1_PATH_SEGMENT_FORCE_UNSTROKED")
    /\ commands = <<MoveTo(Point(10, -20))>>

\* The events the callbacks of a log produce, in order.
RECURSIVE EventsOf(_)
EventsOf(log) ==
    IF log = <<>> THEN <<>>
    ELSE LET cb == log[Len(log)]
             before == EventsOf(SubSeq(log, 1, Len(log) - 1))
         IN IF cb.op = "BeginFigure"
            THEN Append(before, MoveTo(Point(cb.points[1].x,
                                             0 - cb.points[1].y)))
            ELSE IF cb.op = "AddLines"
            THEN before \o [i \in DOMAIN cb.points |->
                               LineTo(Point(cb.points[i].x,
                                            0 - cb.points[i].y))]
            ELSE IF cb.op = "AddBeziers"
            THEN before \o [i \in DOMAIN cb.beziers |->
                               CubicTo(Point(cb.beziers[i].point1.x,
                                             0 - cb.beziers[i].point1.y),
                                       Point(cb.beziers[i].point2.x,
                                             0 - cb.beziers[i].point2.y),
                                       Point(cb.beziers[i].point3.x,
                                             0 - cb.beziers[i].point3.y))]
            ELSE IF cb.op = "EndFigure" /\ cb.flag = D2D1_FIGURE_END_CLOSED
            THEN Append(before, Close)
            ELSE before

\* C24: a glyph_outline call starts with a new, empty sink; what it returns
\* on success is exactly the events of the callbacks of that call, with
\* nothing of an earlier call, successful or failed; and the events are
\* moved out of the sink, which is left empty.
C24_FreshSinkPerOutline ==
    [][/\ (pc = "idle" /\ pc' = "outlining") =>
              /\ commands' = <<>>
              /\ calls' = <<>>
       /\ (pc = "outlining" /\ pc' = "idle") =>
              /\ ret'.calls = calls
              /\ ret'.result = "Ok" =>
                     /\ ret'.value = EventsOf(calls)
                     /\ ret'.value = commands
              /\ ret'.result = "Err" => ret'.value = <<>>
              /\ commands' = <<>>]_vars

\* C24 witness: a call whose one callback was a BeginFigure has returned
\* the one MoveTo, and the sink is empty.
C24_Witness ==
    /\ pc = "idle"
    /\ ret.op = "glyph_outline"
    /\ ret.result = "Ok"
    /\ ret.calls = <<Callback("BeginFigure", <<Point(0, 0)>>, <<>>, "")>>
    /\ ret.value = <<MoveTo(Point(0, 0))>>
    /\ commands = <<>>

(***************************************************************************)
(* Properties of the loader chain.                                         *)
(***************************************************************************)
\* C9: ReadFileFragment returns E_BOUNDS exactly when file_offset exceeds
\* the buffer length or file_offset + fragment_size does, and succeeds
\* otherwise.
C9_ReadBoundsExact ==
    frag.hr # "none"
    => frag.hr = IF \/ frag.file_offset > buffer_len
                    \/ frag.file_offset + frag.fragment_size > buffer_len
                 THEN E_BOUNDS
                 ELSE S_OK

\* C10: GetCurrentFontFile succeeds, with the font file as output, exactly
\* when the enumerator is AtFontFile, which is exactly when MoveNext has been
\* called once; otherwise it returns E_BOUNDS with a null output; and it
\* leaves the state of every enumerator as it was.
C10_GetCurrentFontFile ==
    [][enumRet'.op = "GetCurrentFontFile"
       => LET e == enumerators[enumRet'.this]
          IN /\ enumRet'.hr = IF e.state = AtFontFile THEN S_OK ELSE E_BOUNDS
             /\ enumRet'.out = IF e.state = AtFontFile THEN "font_file"
                               ELSE "null"
             /\ e.state = AtFontFile <=> e.moves = 1
             /\ enumerators' = enumerators]_vars

\* C10 witness: after the second MoveNext GetCurrentFontFile fails, a
\* reference having been handed out while the enumerator was AtFontFile.
C10_Witness ==
    /\ enumRet.op = "GetCurrentFontFile"
    /\ enumRet.hr = E_BOUNDS
    /\ enumerators[enumRet.this].moves = 2
    /\ Len(enumerators) = 1
    /\ font_file_refs = 3

(***************************************************************************)
(* Properties of the glyph index lookup.                                   *)
(***************************************************************************)
\* C13: a glyph index lookup that succeeds returns as many glyph indices as
\* it was given characters, the i-th being the engine's glyph index of the
\* i-th character, a 0 (no glyph) included as it is; a lookup whose engine
\* call fails returns Err(()) and no indices.
C13_GlyphIndices ==
    ret.op = "load_glyph_indices_for_characters" =>
        /\ ret.result = "Ok" =>
               /\ Len(ret.value) = Len(ret.characters)
               /\ \A i \in 1 .. Len(ret.characters) :
                      ret.value[i] = cmap(ret.characters[i])
        /\ (\E i \in DOMAIN ret.engineCalls : ~ret.engineCalls[i].ok) =>
               /\ ret.result = "Err"
               /\ ret.value = <<>>
        /\ (ret.key \in DOMAIN dwrite_font_faces
            /\ \A i \in DOMAIN ret.engineCalls : ret.engineCalls[i].ok)
               => ret.result = "Ok"

C13_Witness ==
    /\ ret.op = "load_glyph_indices_for_characters"
    /\ ret.result = "Ok"
    /\ ret.characters = <<9999, 65>>
    /\ ret.value = <<0, 36>>

(***************************************************************************)
(* Properties of the registration of the loaders.                          *)
(***************************************************************************)
\* The host engine call fn of the call was made and succeeded.
Succeeded(r, fn) ==
    \E i \in DOMAIN r.engineCalls :
        r.engineCalls[i].fn = fn /\ r.engineCalls[i].ok

\* The loaders the call has registered so far.
RegisteredBy(r) ==
    {l \in {"file"} : Succeeded(r, "RegisterFontFileLoader")}
    \cup {l \in {"collection"} : Succeeded(r, "RegisterFontCollectionLoader")}

\* Both loaders were unregistered, by calls that come after CreateFontFace.
UnregisteredAfterFace(r) ==
    \E i, j, k \in DOMAIN r.engineCalls :
        /\ i < j /\ i < k
        /\ r.engineCalls[i].fn = "CreateFontFace"
        /\ r.engineCalls[j].fn = "UnregisterFontCollectionLoader"
        /\ r.engineCalls[k].fn = "UnregisterFontFileLoader"
        /\ r.engineCalls[i].ok /\ r.engineCalls[j].ok /\ r.engineCalls[k].ok

\* On the successful path both loaders are unregistered after the face is
\* created and before the catalog entry is inserted, and neither is
\* registered when the call has returned Ok(()).
UnregisteredOnSuccess ==
    /\ dwrite_font_faces' # dwrite_font_faces
           => registered = {} /\ UnregisteredAfterFace(ret)
    /\ (ret'.op = "add_font_from_memory" /\ ret'.result = "Ok")
           => registered' = {}

\* C11 as stated: in add_font_from_memory both loaders are registered
\* before any callback of the loader chain (CreateStreamFromKey, a stream
\* read, CreateEnumeratorFromKey, MoveNext, GetCurrentFontFile) is invoked;
\* on the successful path both are unregistered after the face is created
\* and before the insert, so that neither is registered after a success.
C11_BothRegisteredBeforeAnyCallback ==
    [][/\ (streamVars' # streamVars \/ enumVars' # enumVars)
           => RegisteredBy(ret) = {"file", "collection"}
       /\ UnregisteredOnSuccess]_vars

\* C11 amended: each loader is registered before any callback on it or on
\* an object it made is invoked: the file loader before CreateStreamFromKey
\* and any stream read, both loaders before CreateEnumeratorFromKey,
\* MoveNext and GetCurrentFontFile; on the successful path both are
\* unregistered after the face is created and before the insert, so that
\* neither is registered after a success.
C11_EachLoaderRegisteredBeforeItsCallbacks ==
    [][/\ streamVars' # streamVars => "file" \in RegisteredBy(ret)
       /\ enumVars' # enumVars => RegisteredBy(ret) = {"file", "collection"}
       /\ UnregisteredOnSuccess]_vars

C11_Witness ==
    /\ ret.op = "add_font_from_memory"
    /\ ret.result = "Ok"
    /\ ret.key \in DOMAIN dwrite_font_faces
    /\ registered = {}
    /\ loaderRet.hr = S_OK /\ file_streams > 0
    /\ frag.hr = S_OK
    /\ Len(enumerators) > 0
    /\ enumRet.op = "GetCurrentFontFile" /\ enumRet.hr = S_OK

\* C12 as stated: when a host engine call of add_font_from_memory fails
\* after one or both loaders were registered, the function returns Err(())
\* at once and every loader the call registered is still registered.
C12_FailureLeavesEveryLoaderRegistered ==
    [][(ret'.op = "add_font_from_memory" /\ ret'.result = "Err"
        /\ ret.result = "pending")
       => /\ loadStep' = 0
          /\ ~ret'.engineCalls[Len(ret'.engineCalls)].ok
          /\ registered' = RegisteredBy(ret')]_vars

\* C12 amended: when a host engine call of add_font_from_memory fails the
\* function returns Err(()) at once and unregisters nothing in response:
\* every loader the call registered is still registered, except the
\* collection loader when the failing call is the final
\* UnregisterFontFileLoader, which the preceding call had unregistered.
C12_FailureRollsNothingBack ==
    [][(ret'.op = "add_font_from_memory" /\ ret'.result = "Err"
        /\ ret.result = "pending")
       => LET failed == ret'.engineCalls[Len(ret'.engineCalls)]
          IN /\ loadStep' = 0
             /\ ~failed.ok
             /\ registered' = registered
             /\ registered' =
                    IF failed.fn = "UnregisterFontFileLoader"
                    THEN RegisteredBy(ret') \ {"collection"}
                    ELSE RegisteredBy(ret')]_vars

C12_Witness ==
    /\ ret.op = "add_font_from_memory"
    /\ ret.result = "Err"
    /\ loadStep = 0
    /\ registered = {"file", "collection"}
    /\ Len(enumerators) > 0

(***************************************************************************)
(* Properties of the loader chain.                                         *)
(***************************************************************************)
\* C14: CreateStreamFromKey builds and returns a new stream over the
\* loader's buffer exactly when the key has the length and the bytes of
\* PATHFINDER_FONT_FILE_KEY; for every other key it returns E_INVALIDARG,
\* writes a null output and builds no stream.
C14_CreateStreamFromKey ==
    [][(loaderRet'.op = "CreateStreamFromKey"
        /\ (loaderRet' # loaderRet \/ file_streams' # file_streams))
       => IF loaderRet'.key = PATHFINDER_FONT_FILE_KEY
          THEN /\ loaderRet'.hr = S_OK
               /\ loaderRet'.out = "stream"
               /\ file_streams' = file_streams + 1
               /\ buffer_refs' = buffer_refs + 1
               /\ stream_live'
          ELSE /\ loaderRet'.hr = E_INVALIDARG
               /\ loaderRet'.out = "null"
               /\ file_streams' = file_streams
               /\ buffer_refs' = buffer_refs
               /\ stream_live' = stream_live]_vars

C14_Witness ==
    /\ file_streams = 1
    /\ stream_live
    /\ loaderRet.op = "CreateStreamFromKey"
    /\ loaderRet.key = "MEMORY_FILE_"
    /\ loaderRet.hr = E_INVALIDARG

\* C15: CreateEnumeratorFromKey builds an enumerator (in state Start, over
\* the loader's font file) only when the key is
\* PATHFINDER_FONT_COLLECTION_KEY; any other key is refused with
\* E_INVALIDARG and no enumerator is built.
C15_CreateEnumeratorFromKey ==
    [][(enumRet'.op = "CreateEnumeratorFromKey"
        /\ (enumRet' # enumRet \/ enumerators' # enumerators))
       => IF enumRet'.arg = PATHFINDER_FONT_COLLECTION_KEY
          THEN /\ enumRet'.hr = S_OK
               /\ Len(enumerators') = Len(enumerators) + 1
               /\ enumerators'[Len(enumerators')].state = Start
          ELSE /\ enumRet'.hr = E_INVALIDARG
               /\ enumerators' = enumerators]_vars

\* The order of the enumerator states.
Rank(state) ==
    CASE state = Start -> 0
      [] state = AtFontFile -> 1
      [] state = End -> 2

\* C16: MoveNext always returns S_OK; it takes Start to AtFontFile and
\* reports TRUE, AtFontFile to End and End to End and reports FALSE.  No
\* step moves an enumerator backwards, End is never left, and TRUE is
\* reported by the first MoveNext on an enumerator and by no other.
C16_MoveNext ==
    [][\A i \in DOMAIN enumerators :
          LET before == enumerators[i]
              after == enumerators'[i]
          IN /\ Rank(after.state) >= Rank(before.state)
             /\ before.state = End => after.state = End
             /\ after.moves = before.moves + 1 =>
                    /\ enumRet'.op = "MoveNext"
                    /\ enumRet'.this = i
                    /\ enumRet'.hr = S_OK
                    /\ before.state = Start =>
                           after.state = AtFontFile /\ enumRet'.out = "TRUE"
                    /\ before.state = AtFontFile =>
                           after.state = End /\ enumRet'.out = "FALSE"
                    /\ before.state = End =>
                           after.state = End /\ enumRet'.out = "FALSE"
                    /\ enumRet'.out = "TRUE" <=> before.moves = 0]_vars

C16_Witness ==
    /\ enumRet.op = "MoveNext"
    /\ enumRet.out = "FALSE"
    /\ enumRet.hr = S_OK
    /\ enumerators[enumRet.this].state = End
    /\ enumerators[enumRet.this].moves = 3

(***************************************************************************)
(* Properties of the reference count of the stream.                        *)
(***************************************************************************)
\* C17: a ReadFileFragment that succeeds raises the reference count of the
\* stream by one, one that fails leaves it alone, and a ReleaseFileFragment
\* lowers it by one.  The count of a live stream is therefore the
\* references of its owners plus the fragments outstanding: it is never
\* below the number of outstanding fragments, and it is back at its earlier
\* value once every fragment read since has been released.
C17_FragmentReferences ==
    /\ [](stream_live => /\ stream_refs = owners + fragments
                         /\ stream_refs >= fragments)
    /\ [][/\ fragments' = fragments + 1 =>
              /\ frag'.hr = S_OK
              /\ stream_refs' = stream_refs + 1
              /\ owners' = owners
          /\ (frag' # frag /\ frag'.hr \in {E_BOUNDS, "panic"}) =>
              /\ stream_refs' = stream_refs
              /\ fragments' = fragments
          /\ fragments' = fragments - 1 =>
              /\ stream_refs' = stream_refs - 1
              /\ owners' = owners]_vars

C17_Witness ==
    /\ stream_live
    /\ frag.hr = S_OK
    /\ fragments = 0
    /\ owners = 1
    /\ stream_refs = 1
    /\ comRet.op = "construct"

\* C18: while a fragment of the stream is outstanding the stream and the
\* buffer it shares stay allocated, also when every owner has released its
\* reference; the stream is deallocated only by the release that takes its
\* count from one to zero, and then no fragment is outstanding.
C18_FragmentPinsStream ==
    /\ [](fragments > 0 => stream_live /\ buffer_refs >= 1)
    /\ [][(stream_live /\ ~stream_live') =>
              /\ stream_refs = 1
              /\ stream_refs' = 0
              /\ owners' = 0
              /\ fragments' = 0
              /\ buffer_refs' = buffer_refs - 1]_vars

C18_Witness ==
    /\ stream_live
    /\ owners = 0
    /\ fragments > 0
    /\ buffer_refs = 2
    /\ comRet.op = "Release"

(***************************************************************************)
(* Properties of the object runtime.                                       *)
(***************************************************************************)
\* C19: a plugin object is built with reference count 1; AddRef raises the
\* count by one and returns the new count; Release lowers it by one,
\* returns the new count and deallocates the object exactly when that is
\* zero.  A live object has a count of at least 1, an object is deallocated
\* once, and nothing is done to it afterwards.
C19_ReferenceCount ==
    /\ [](stream_live <=> stream_refs >= 1)
    /\ [][/\ (~stream_live /\ stream_live') => stream_refs' = 1
          /\ (comRet'.op = "AddRef" /\ comRet' # comRet) =>
                 /\ stream_refs' = stream_refs + 1
                 /\ comRet'.value = stream_refs'
                 /\ stream_live /\ stream_live'
          /\ (comRet'.op = "Release" /\ comRet' # comRet) =>
                 /\ stream_refs' = stream_refs - 1
                 /\ comRet'.value = stream_refs'
                 /\ stream_live
                 /\ stream_live' <=> stream_refs' # 0
          /\ (stream_live /\ ~stream_live') =>
                 /\ stream_refs = 1
                 /\ stream_refs' = 0
                 /\ buffer_refs' = buffer_refs - 1
          /\ (~stream_live /\ ~stream_live') =>
                 UNCHANGED <<stream_refs, fragments, frag, owners, comRet,
                             buffer_refs>>]_vars

C19_Witness ==
    /\ ~stream_live
    /\ stream_refs = 0
    /\ comRet.op = "Release"
    /\ comRet.value = 0
    /\ file_streams = 1
    /\ buffer_refs = 1

\* The interfaces the collection loader implements: IUnknown, the parent of
\* its vtable, and IDWriteFontCollectionLoader.
CollectionLoaderInterfaces == {IID_IUnknown, IID_IDWriteFontCollectionLoader}

\* C20: QueryInterface with an interface the object implements returns the
\* object itself and raises its reference count by one; with any other
\* interface it returns E_NOINTERFACE, writes a null output and leaves the
\* count alone.
C20_QueryInterface ==
    [][(enumRet'.op = "QueryInterface"
        /\ (enumRet' # enumRet \/ loader_refs' # loader_refs))
       => IF enumRet'.arg \in CollectionLoaderInterfaces
          THEN /\ enumRet'.hr = S_OK
               /\ enumRet'.out = "this"
               /\ loader_refs' = loader_refs + 1
          ELSE /\ enumRet'.hr = E_NOINTERFACE
               /\ enumRet'.out = "null"
               /\ loader_refs' = loader_refs]_vars

C20_Witness ==
    /\ enumRet.op = "QueryInterface"
    /\ enumRet.arg = IID_IDWriteFontFileLoader
    /\ enumRet.hr = E_NOINTERFACE
    /\ loader_refs = 3

\* The sum of the references the threads hold.
RECURSIVE HeldUpTo(_)
HeldUpTo(n) == IF n = 0 THEN 0 ELSE thread_refs[n] + HeldUpTo(n - 1)

\* C21: with AddRef and Release called on one object from several threads
\* in any interleaving, no update is lost: the count is the initial count
\* plus the AddRef calls minus the Release calls, and every reference held
\* is counted; the object is deallocated exactly once, by the Release that
\* brings the count to zero, and by no other call.
C21_NoLostUpdate ==
    /\ [](/\ ref_count = construct + com_history.adds - com_history.releases
          /\ ref_count = HeldUpTo(MaxThreads)
          /\ com_history.deallocs = IF ref_count = 0 THEN 1 ELSE 0)
    /\ [][com_history'.deallocs # com_history.deallocs
          => \E thread \in Threads :
                /\ threadRet'[thread] = ComCall("Release", "", 0, "")
                /\ thread_refs'[thread] = thread_refs[thread] - 1
                /\ ref_count = 1
                /\ ref_count' = 0]_vars

\* C21 witness: both threads have called AddRef on the object, and a
\* Release by the second thread has then brought a count of three to two.
C21_Witness ==
    /\ threadRet[1] = ComCall("AddRef", "", 3, "")
    /\ threadRet[2] = ComCall("Release", "", 2, "")
    /\ com_history = [adds |-> 2, releases |-> 1, deallocs |-> 0]
    /\ ref_count = 2

\* C21 witness of the deallocation: the last of two references, held by the
\* second thread, has been released.
C21_Deallocated ==
    /\ threadRet[2] = ComCall("Release", "", 0, "")
    /\ com_history.deallocs = 1
    /\ com_history.adds = 1

\* C27: by the time add_font_from_memory returns, every reference the
\* FontContext took on the file loader and on the collection loader (the
\* constructing one and each clone given to the host engine as a raw
\* pointer) has been released, so that the loaders are left with the host
\* engine's own references only.
C27_ReferenceBalance ==
    (ret.op = "add_font_from_memory" /\ ret.result \in {"Ok", "Err"})
    => context_refs = NoReferences

\* C25: the value GetLastWriteTime reports is the creation time the stream
\* was constructed with, at every call; GetFileSize reports the length of
\* the buffer; and no stream operation (GetFileSize, GetLastWriteTime,
\* ReadFileFragment, ReleaseFileFragment, AddRef, Release) changes the
\* creation time or the length of the buffer.
C25_WriteTimeFixed ==
    /\ [](streamRet.op = "GetLastWriteTime" =>
            /\ streamRet.hr = S_OK
            /\ streamRet.value = creation_time)
    /\ [](streamRet.op = "GetFileSize" =>
            /\ streamRet.hr = S_OK
            /\ streamRet.value = buffer_len)
    /\ [][/\ creation_time' = creation_time
          /\ buffer_len' = buffer_len]_vars

\* C25 witness: GetLastWriteTime has reported the creation time of a stream
\* made at the third of the times, after a fragment was read and released
\* and an owner took and gave up a reference.
C25_Witness ==
    /\ streamRet = StreamCall("GetLastWriteTime", S_OK, 7)
    /\ creation_time = FileTimeAsUINT64(FILETIME(3, 1))
    /\ frag.hr = S_OK
    /\ fragments = 0
    /\ comRet.op = "Release"
    /\ stream_live

\* C26: for every offset and length of the word, ReadFileFragment succeeds
\* only if the range [file_offset, file_offset + fragment_size), summed
\* without wrapping, lies within the buffer; a sum that wraps around the
\* word never passes the bounds check.
C26_NoWrappedRead ==
    /\ frag.hr = S_OK => frag.file_offset + frag.fragment_size <= buffer_len
    /\ frag.file_offset + frag.fragment_size >= Modulus => frag.hr # S_OK

====
